---------------------------- MODULE Spec2Model ----------------------------
(***************************************************************************)
(* Angular DIMENSION examples of examples/render/dimension_angular.py and  *)
(* the angular-dimension geometry resolver the examples call into.         *)
(*                                                                         *)
(* Numbers.  The coordinates the script builds are sums of integers and of *)
(* cosines of multiples of 15 degrees, so they are held exactly: a number  *)
(* is a tuple <<a, b, c, d>> standing for                                  *)
(*        (a + b*sqrt(2) + c*sqrt(3) + d*sqrt(6)) / 8.                     *)
(* Angles are held in quarter degrees (Deg(1) = 4).  The `angle` parameter *)
(* of measure_fixed_angle and usr_location_* is held in half degrees       *)
(* (ArgDeg(1) = 2), so that the file name's rounding has halves to round   *)
(* and the script's delta = angle / 2.0 is exact for every such angle.     *)
(***************************************************************************)
EXTENDS Integers, Sequences, FiniteSets, TLC

(***************************************************************************)
(* Exact arithmetic in Q(sqrt 2, sqrt 3), common denominator 8.            *)
(***************************************************************************)
Num(n) == <<8 * n, 0, 0, 0>>

Half(n) == <<4 * n, 0, 0, 0>>

QZero == Num(0)

QAdd(x, y) == <<x[1] + y[1], x[2] + y[2], x[3] + y[3], x[4] + y[4]>>

QNeg(x) == <<-x[1], -x[2], -x[3], -x[4]>>

QSub(x, y) == QAdd(x, QNeg(y))

\* numerator of x*y over the denominator 64
QProd(x, y) ==
    << x[1]*y[1] + 2*x[2]*y[2] + 3*x[3]*y[3] + 6*x[4]*y[4],
       x[1]*y[2] + x[2]*y[1] + 3*(x[3]*y[4] + x[4]*y[3]),
       x[1]*y[3] + x[3]*y[1] + 2*(x[2]*y[4] + x[4]*y[2]),
       x[1]*y[4] + x[4]*y[1] + x[2]*y[3] + x[3]*y[2] >>

\* p / k for a tuple p whose entries k divides (anything else is no number)
QDiv(p, k) ==
    IF \A n \in 1..4 : p[n] % k = 0
    THEN <<p[1] \div k, p[2] \div k, p[3] \div k, p[4] \div k>>
    ELSE <<"inexact">>

\* x*y over the denominator 8
QMul(x, y) == QDiv(QProd(x, y), 8)

SignInt(n) == IF n > 0 THEN 1 ELSE IF n < 0 THEN -1 ELSE 0

\* sign of a + b*sqrt(2)
Sign2(a, b) ==
    IF a >= 0 /\ b >= 0 THEN (IF a = 0 /\ b = 0 THEN 0 ELSE 1)
    ELSE IF a <= 0 /\ b <= 0 THEN -1
    ELSE IF a > 0 THEN SignInt(a*a - 2*b*b)
    ELSE SignInt(2*b*b - a*a)

\* sign of (a + b*sqrt(2)) + (c + d*sqrt(2))*sqrt(3)
QSign(x) ==
    LET sP == Sign2(x[1], x[2])
        sQ == Sign2(x[3], x[4])
        \* P*P - 3*Q*Q, again of the form a + b*sqrt(2)
        diff == Sign2(x[1]*x[1] + 2*x[2]*x[2] - 3*(x[3]*x[3] + 2*x[4]*x[4]),
                      2*x[1]*x[2] - 6*x[3]*x[4])
    IN  IF sP >= 0 /\ sQ >= 0 THEN (IF sP = 0 /\ sQ = 0 THEN 0 ELSE 1)
        ELSE IF sP <= 0 /\ sQ <= 0 THEN -1
        ELSE IF sP > 0 THEN diff
        ELSE -diff

(***************************************************************************)
(* Vec3 (ezdxf.math): immutable; every operation returns a new vector.     *)
(* The examples are planar, z is 0 throughout and is not carried.          *)
(***************************************************************************)
Vec3(x, y) == <<Num(x), Num(y)>>

NULLVEC == Vec3(0, 0)

VAdd(u, v) == <<QAdd(u[1], v[1]), QAdd(u[2], v[2])>>

VSub(u, v) == <<QSub(u[1], v[1]), QSub(u[2], v[2])>>

\* Vec3.__mul__(scalar)
VMul(u, s) == <<QMul(u[1], s), QMul(u[2], s)>>

\* Vec3.lerp(other, factor=0.5): self + (other - self) * factor
lerp(u, v) == VAdd(u, VMul(VSub(v, u), Half(1)))

Dot(u, v) == QAdd(QProd(u[1], v[1]), QProd(u[2], v[2]))

Cross(u, v) == QSub(QProd(u[1], v[2]), QProd(u[2], v[1]))

(***************************************************************************)
(* Angles, in quarter degrees.                                             *)
(***************************************************************************)
Deg(d) == 4 * d

Turn == Deg(360)

Step15 == Deg(15)

\* cos(15*k degrees), k in 0..6
CosTable ==
    << <<0, 2, 0, 2>>,      \* 15: (sqrt 6 + sqrt 2)/4
       <<0, 0, 4, 0>>,      \* 30: sqrt 3 / 2
       <<0, 4, 0, 0>>,      \* 45: sqrt 2 / 2
       <<4, 0, 0, 0>>,      \* 60: 1/2
       <<0, -2, 0, 2>>,     \* 75: (sqrt 6 - sqrt 2)/4
       <<0, 0, 0, 0>> >>    \* 90

RECURSIVE CosK(_)
CosK(k) ==
    LET m == k % 24
    IN  IF m = 0 THEN Num(1)
        ELSE IF m <= 6 THEN CosTable[m]
        ELSE IF m <= 12 THEN QNeg(CosK(12 - m))
        ELSE CosK(24 - m)

SinK(k) == CosK(k - 6)

OnGrid(angle) == angle % Step15 = 0

\* Vec3.from_deg_angle(angle, length=1.0): the unit vector of a polar angle
direction_at(angle) ==
    LET k == (angle % Turn) \div Step15
    IN  <<CosK(k), SinK(k)>>

from_deg_angle(angle, length) == VMul(direction_at(angle), length)

\* the grid angles whose ray holds v
RaysOf(v) ==
    { k \in 0..23 :
        /\ QSign(Cross(v, <<CosK(k), SinK(k)>>)) = 0
        /\ QSign(Dot(v, <<CosK(k), SinK(k)>>)) > 0 }

\* Vec3.angle_deg: degrees(atan2(y, x)), in (-180, 180]; 0 for the null vector
angle_of(v) ==
    IF v = NULLVEC THEN 0
    ELSE LET k == CHOOSE n \in RaysOf(v) : TRUE
         IN  IF k <= 12 THEN k * Step15 ELSE k * Step15 - Turn

\* Vec3.magnitude
magnitude(v) ==
    IF v = NULLVEC THEN QZero
    ELSE QDiv(Dot(v, direction_at(angle_of(v))), 8)

distance_between(p, q) == magnitude(VSub(q, p))


(***************************************************************************)
(* AngularDimensionResolver: the geometry behind add_angular_dim_cra,      *)
(* add_angular_dim_3p and add_angular_dim_2l.  A call returns either an    *)
(* AngularDimensionSpec or a named geometry error.                         *)
(***************************************************************************)
GeometryError(name) == [kind |-> "error", error |-> name]

None == <<>>

Some(x) == <<x>>

\* the counter-clockwise sweep from start_angle to end_angle
measured_angle(start_angle, end_angle) == (end_angle - start_angle) % Turn

\* the midpoint of the counter-clockwise arc from start_angle to end_angle
lerp_angle(start_angle, end_angle) ==
    start_angle + measured_angle(start_angle, end_angle) \div 2

resolve_from_center_radius_angles(center, radius, start_angle, end_angle, distance, text_rotation) ==
    IF QSign(radius) <= 0 THEN GeometryError("InvalidGeometry")
    ELSE [ kind |-> "spec",
           center |-> center,
           radius |-> radius,
           start_angle |-> start_angle,
           end_angle |-> end_angle,
           distance |-> distance,
           dimension_line_point |->
               VAdd(center,
                    VMul(direction_at(lerp_angle(start_angle, end_angle)),
                         QAdd(radius, distance))),
           text_rotation |-> text_rotation ]

\* the three-point resolver that looks at boundary_point_1 only
resolve_from_three_points_bp1(dimension_line_point, center, boundary_point_1, boundary_point_2, text_rotation) ==
    LET radius == distance_between(center, boundary_point_1)
    IN  IF QSign(radius) = 0 THEN GeometryError("DegenerateGeometry")
        ELSE [ kind |-> "spec",
               center |-> center,
               radius |-> radius,
               start_angle |-> angle_of(VSub(boundary_point_1, center)),
               end_angle |-> angle_of(VSub(boundary_point_2, center)),
               distance |->
                   QSub(distance_between(center, dimension_line_point), radius),
               dimension_line_point |-> dimension_line_point,
               text_rotation |-> text_rotation ]

resolve_from_three_points(dimension_line_point, center, boundary_point_1, boundary_point_2, text_rotation) ==
    IF boundary_point_1 = center \/ boundary_point_2 = center
    THEN GeometryError("DegenerateGeometry")
    ELSE LET radius == distance_between(center, boundary_point_1)
         IN  IF QSign(radius) = 0 THEN GeometryError("DegenerateGeometry")
             ELSE [ kind |-> "spec",
                    center |-> center,
                    radius |-> radius,
                    start_angle |-> angle_of(VSub(boundary_point_1, center)),
                    end_angle |-> angle_of(VSub(boundary_point_2, center)),
                    distance |->
                        QSub(distance_between(center, dimension_line_point),
                             radius),
                    dimension_line_point |-> dimension_line_point,
                    text_rotation |-> text_rotation ]

(***************************************************************************)
(* Two lines.  The end points are lattice points; the intersection is a    *)
(* rational point <<X, Y, W>> = (X/W, Y/W), W > 0, in lowest terms, and    *)
(* the two angles are held as the reduced integer directions of their      *)
(* rays (a direction between lattice points is in general no multiple of   *)
(* 15 degrees).                                                            *)
(***************************************************************************)
Abs(n) == IF n < 0 THEN -n ELSE n

RECURSIVE GCD(_, _)
GCD(a, b) == IF b = 0 THEN Abs(a) ELSE GCD(b, a % Abs(b))

\* the integer coordinates of a lattice point
IntPt(p) == <<p[1][1] \div 8, p[2][1] \div 8>>

ICross(u, v) == u[1] * v[2] - u[2] * v[1]

ISub(u, v) == <<u[1] - v[1], u[2] - v[2]>>

Reduce(v) ==
    LET g == GCD(v[1], v[2])
    IN  IF g = 0 THEN v ELSE <<v[1] \div g, v[2] \div g>>

\* the intersection of the infinite lines through a1, a2 and through b1, b2
intersection(a1, a2, b1, b2) ==
    LET d1 == ISub(a2, a1)
        d2 == ISub(b2, b1)
        w  == ICross(d1, d2)
        t  == ICross(ISub(b1, a1), d2)
        x  == a1[1] * w + d1[1] * t
        y  == a1[2] * w + d1[2] * t
        g  == GCD(GCD(x, y), w) * SignInt(w)
    IN  <<x \div g, y \div g, w \div g>>

\* W*W times the squared distance of lattice point e from the point c
far2(c, e) ==
    (c[3] * e[1] - c[1]) * (c[3] * e[1] - c[1])
  + (c[3] * e[2] - c[2]) * (c[3] * e[2] - c[2])

\* the end point of the segment that is farther from c (the first on a tie)
outward(c, line) ==
    IF far2(c, line[2]) > far2(c, line[1]) THEN line[2] ELSE line[1]

\* the reduced direction from c toward lattice point e
ray(c, e) == Reduce(<<c[3] * e[1] - c[1], c[3] * e[2] - c[2]>>)

resolve_from_two_lines(dimension_line_point, line1, line2) ==
    LET a1 == IntPt(line1[1])
        a2 == IntPt(line1[2])
        b1 == IntPt(line2[1])
        b2 == IntPt(line2[2])
    IN  IF ICross(ISub(a2, a1), ISub(b2, b1)) = 0
        THEN GeometryError("ParallelLines")
        ELSE LET c == intersection(a1, a2, b1, b2)
             IN  [ kind |-> "spec",
                   center |-> c,
                   start_dir |-> ray(c, outward(c, <<a1, a2>>)),
                   end_dir |-> ray(c, outward(c, <<b1, b2>>)),
                   dimension_line_point |-> dimension_line_point ]

(***************************************************************************)
(* The script.                                                             *)
(***************************************************************************)
VARIABLES
    OUTDIR,   \* the output directory, settled at import
    call,     \* index into Main of the call that runs or runs next
    pc,       \* "call", "body", "save", "raised" or "done"
    j, i,     \* outer and inner loop positions of the running function
    stmt,     \* position in the loop body
    data,     \* the running function's local list `data`
    doc,      \* number of documents created so far (the current one's id)
    msp,      \* the entities of the current document's modelspace
    dim,      \* the loop body's current dimension: its index in msp, or 0
    files,    \* what saveas has written, in order
    req,      \* resolver interface: the last call
    res       \* resolver interface: what it returned

vars == <<OUTDIR, call, pc, j, i, stmt, data, doc, msp, dim, files, req, res>>

scriptVars == <<OUTDIR, call, pc, j, i, stmt, data, doc, msp, dim, files>>

BRICSCAD == FALSE

\* number of arrow names taken from sorted(ezdxf.ARROWS.__all_arrows__): the
\* library's list is longer, every name is handled alike
NumArrows == 3

\* location with the sign of flip lost on p4: both lines run the same way
location_parallel(offset, flip) ==
    LET base == VAdd(Vec3(0, 5), offset)
        p1 == VAdd(Vec3(-4, 3 * flip), offset)
        p2 == VAdd(Vec3(-1, 0), offset)
        p4 == VAdd(Vec3(4, -3 * flip), offset)
        p3 == VAdd(Vec3(1, 0), offset)
    IN  [base |-> base, line1 |-> <<p1, p2>>, line2 |-> <<p3, p4>>]

\* location with flip ignored
location_unflipped(offset, flip) ==
    LET base == VAdd(Vec3(0, 5), offset)
        p1 == VAdd(Vec3(-4, 3), offset)
        p2 == VAdd(Vec3(-1, 0), offset)
        p4 == VAdd(Vec3(4, 3), offset)
        p3 == VAdd(Vec3(1, 0), offset)
    IN  [base |-> base, line1 |-> <<p1, p2>>, line2 |-> <<p3, p4>>]

\* location(offset, flip) of locations()
location(offset, flip) ==
    LET base == VAdd(Vec3(0, 5), offset)
        p1 == VAdd(Vec3(-4, 3 * flip), offset)
        p2 == VAdd(Vec3(-1, 0), offset)
        p4 == VAdd(Vec3(4, 3 * flip), offset)
        p3 == VAdd(Vec3(1, 0), offset)
    IN  [base |-> base, line1 |-> <<p1, p2>>, line2 |-> <<p3, p4>>]

locations == << location(NULLVEC, 1), location(Vec3(10, 0), -1) >>

Row(center, start_angle, end_angle) ==
    [ center |-> center, start_angle |-> Deg(start_angle),
      end_angle |-> Deg(end_angle) ]

TolRow(center, start_angle, end_angle, dimtol, dimlim) ==
    [ center |-> center, start_angle |-> Deg(start_angle),
      end_angle |-> Deg(end_angle), dimtol |-> dimtol, dimlim |-> dimlim ]

\* `data` of angular_cra_default
cra_data ==
    << Row(Vec3(0, 0), 60, 120),
       Row(Vec3(10, 0), 300, 240),
       Row(Vec3(20, 0), 240, 300),
       Row(Vec3(30, 0), 300, 30) >>

\* `data` of angular_3p_default
p3_data ==
    << Row(Vec3(0, 0), 60, 120),
       Row(Vec3(10, 0), 300, 240),
       Row(Vec3(20, 0), 240, 300) >>

\* `data` of angular_units_tol_limits
utl_data ==
    << TolRow(Vec3(0, 0), 60, 120, 0, 0),
       TolRow(Vec3(10, 0), 300, 240, 0, 0),
       TolRow(Vec3(20, 0), 240, 300, 1, 0),
       TolRow(Vec3(30, 0), 300, 30, 0, 1) >>

\* the outer loop of angular_cra_default and angular_3p_default
tad_groups ==
    << [override |-> [dimtad |-> 1], offset |-> Vec3(0, 20)],
       [override |-> [dimtad |-> 0], offset |-> Vec3(0, 0)],
       [override |-> [dimtad |-> 4], offset |-> Vec3(0, -20)] >>

\* the outer loop of angular_units_tol_limits
unit_groups ==
    << [override |-> [dimaunit |-> 0], offset |-> Vec3(0, 0)],
       [override |-> [dimaunit |-> 1], offset |-> Vec3(0, 20)],
       [override |-> [dimaunit |-> 2], offset |-> Vec3(0, 40)],
       [override |-> [dimaunit |-> 3], offset |-> Vec3(0, 60)] >>

\* the outer loop of measure_fixed_angle
fixed_groups ==
    << [dimtad |-> 0, y_dist |-> 0, leader |-> FALSE],
       [dimtad |-> 1, y_dist |-> 20, leader |-> FALSE],
       [dimtad |-> 4, y_dist |-> 40, leader |-> FALSE] >>

\* the outer loop of usr_location_absolute and usr_location_relative
usr_groups ==
    << [dimtad |-> 0, y_dist |-> 0, leader |-> FALSE],
       [dimtad |-> 0, y_dist |-> 20, leader |-> TRUE],
       [dimtad |-> 4, y_dist |-> 40, leader |-> TRUE] >>

\* the `angle` parameter of measure_fixed_angle and usr_location_*, and the
\* loop variable `angle` of show_all_arrow_heads, in half degrees
ArgDeg(d) == 2 * d

\* angle / 2.0 of an `angle` parameter, as an angle: the parameter counts half
\* degrees, an angle quarter degrees, so no fraction is lost
halved(angle) == (angle * (Deg(1) \div ArgDeg(1))) \div 2

\* the angles of show_all_arrow_heads' inner loop
arrow_angles == << ArgDeg(3), ArgDeg(30) >>

Call(fn, angle, rotation, dxfversion) ==
    [fn |-> fn, angle |-> angle, rotation |-> rotation, dxfversion |-> dxfversion]

\* the __main__ block
Main ==
    << Call("angular_cra_default", 0, None, "R2013"),
       Call("angular_3p_default", 0, None, "R2013"),
       Call("angular_2l_default", 0, None, "R2013"),
       Call("angular_3d", 0, None, "R2000"),
       Call("angular_units_tol_limits", 0, None, "R2013"),
       Call("measure_fixed_angle", ArgDeg(3), None, "R2013"),
       Call("measure_fixed_angle", ArgDeg(6), None, "R2013"),
       Call("measure_fixed_angle", ArgDeg(9), None, "R2013"),
       Call("usr_location_absolute", ArgDeg(6), None, "R2013"),
       Call("usr_location_absolute", ArgDeg(6), Some(15), "R2013"),
       Call("usr_location_relative", ArgDeg(30), None, "R2013"),
       Call("usr_location_relative", ArgDeg(30), Some(345), "R2013"),
       Call("show_all_arrow_heads", 0, None, "R2013") >>

\* Body with set_location after render in the usr_location functions
Body_render_first(fn) ==
    CASE fn \in {"angular_cra_default", "angular_units_tol_limits"} ->
            <<"add_angular_dim_cra", "render">>
      [] fn = "angular_3p_default" -> <<"add_angular_dim_3p", "render">>
      [] fn \in {"angular_2l_default", "angular_3d"} ->
            <<"add_angular_dim_2l", "render">>
      [] fn \in {"measure_fixed_angle", "show_all_arrow_heads"} ->
            <<"add_angle_dim", "render">>
      [] fn \in {"usr_location_absolute", "usr_location_relative"} ->
            <<"add_angle_dim", "render", "set_location">>

\* the statements of a function's innermost loop body that act on a dimension
Body(fn) ==
    CASE fn \in {"angular_cra_default", "angular_units_tol_limits"} ->
            <<"add_angular_dim_cra", "render">>
      [] fn = "angular_3p_default" -> <<"add_angular_dim_3p", "render">>
      [] fn \in {"angular_2l_default", "angular_3d"} ->
            <<"add_angular_dim_2l", "render">>
      [] fn \in {"measure_fixed_angle", "show_all_arrow_heads"} ->
            <<"add_angle_dim", "render">>
      [] fn \in {"usr_location_absolute", "usr_location_relative"} ->
            <<"add_angle_dim", "set_location", "render">>

\* the local `data` a function starts with
DataOf(fn) ==
    CASE fn = "angular_cra_default" -> cra_data
      [] fn = "angular_3p_default" -> p3_data
      [] fn = "angular_units_tol_limits" -> utl_data
      [] OTHER -> <<>>

\* iterations of the outer and of the inner loop
OuterLen(fn) ==
    CASE fn \in {"angular_cra_default", "angular_3p_default"} -> Len(tad_groups)
      [] fn = "angular_units_tol_limits" -> Len(unit_groups)
      [] fn \in {"angular_2l_default", "angular_3d"} -> 1
      [] fn = "measure_fixed_angle" -> Len(fixed_groups)
      [] fn \in {"usr_location_absolute", "usr_location_relative"} -> Len(usr_groups)
      [] fn = "show_all_arrow_heads" -> NumArrows

InnerLen(fn) ==
    CASE fn \in {"angular_cra_default", "angular_3p_default",
                 "angular_units_tol_limits"} -> Len(DataOf(fn))
      [] fn \in {"angular_2l_default", "angular_3d"} -> Len(locations)
      [] fn \in {"measure_fixed_angle", "usr_location_absolute",
                 "usr_location_relative"} -> 8
      [] fn = "show_all_arrow_heads" -> Len(arrow_angles)

(***************************************************************************)
(* Entities of the modelspace.                                             *)
(***************************************************************************)
Line(start, end, ucs) == [type |-> "LINE", start |-> start, end |-> end, ucs |-> ucs]

\* center + Vec3.from_deg_angle(angle) * radius; kept in polar form where the
\* angle is no multiple of 15 degrees
polar_point(center, angle, radius) ==
    IF OnGrid(angle) THEN VAdd(center, from_deg_angle(angle, radius))
    ELSE [center |-> center, angle |-> angle, radius |-> radius]

add_lines(center, radius, start_angle, end_angle) ==
    << Line(center, polar_point(center, start_angle, radius), None),
       Line(center, polar_point(center, end_angle, radius), None) >>

\* what add_angular_dim_* returns: the DIMENSION entity, not yet rendered
Dimension(geometry, override, dimstyle) ==
    [ type |-> "DIMENSION", geometry |-> geometry, override |-> override,
      dimstyle |-> dimstyle, user_location |-> None, relocated |-> FALSE,
      rendered |-> 0, discard |-> FALSE, ucs |-> None ]

\* DimStyleOverride.set_location(location, leader, relative)
set_location(e, loc, leader, relative) ==
    [ e EXCEPT !.user_location =
                   Some([location |-> loc, leader |-> leader,
                         relative |-> relative]),
               !.relocated = (e.rendered > 0) ]

\* DimStyleOverride.render(discard, ucs)
render(e, discard, ucs) ==
    [ e EXCEPT !.rendered = @ + 1, !.discard = discard, !.ucs = ucs ]

IsDim(e) == e.type = "DIMENSION"

Dims(entities) == { k \in 1..Len(entities) : IsDim(entities[k]) }

(***************************************************************************)
(* The pieces of the loop bodies.                                          *)
(***************************************************************************)
CraRadius == 5

CraDistance == 2

FixedRadius == 3

FixedDistance == 1

XDist == 15

\* `center += offset` as an in-place update of the vector the row holds
iadd_inplace(rows, k, offset) ==
    [ center |-> VAdd(rows[k].center, offset),
      data |-> [rows EXCEPT ![k].center = VAdd(rows[k].center, offset)] ]

\* `center += offset` on the loop variable bound to data[k][0]: Vec3 is
\* immutable, the sum is a new vector and the row keeps its own
iadd(rows, k, offset) ==
    [center |-> VAdd(rows[k].center, offset), data |-> rows]

\* the call with start_angle and end_angle in each other's place
cra_call_swapped(center, row) ==
    resolve_from_center_radius_angles(center, Num(CraRadius), row.end_angle,
                                      row.start_angle, Num(CraDistance), None)

\* msp.add_angular_dim_cra(center, radius, start_angle, end_angle, distance)
\* as angular_cra_default and angular_units_tol_limits call it
cra_call(center, row) ==
    resolve_from_center_radius_angles(center, Num(CraRadius), row.start_angle,
                                      row.end_angle, Num(CraDistance), None)

\* the defpoints with base on the first boundary ray
defpoints_3p_dir1(center, radius, distance, start_angle, end_angle) ==
    LET dir1 == direction_at(start_angle)
        dir2 == direction_at(end_angle)
    IN  [ p1 |-> VAdd(center, VMul(dir1, radius)),
          p2 |-> VAdd(center, VMul(dir2, radius)),
          base |-> VAdd(center, VMul(dir1, QAdd(radius, distance))) ]

\* the defpoints angular_3p_default calculates from the "cra" parameters
defpoints_3p(center, radius, distance, start_angle, end_angle) ==
    LET dir1 == direction_at(start_angle)
        dir2 == direction_at(end_angle)
    IN  [ p1 |-> VAdd(center, VMul(dir1, radius)),
          p2 |-> VAdd(center, VMul(dir2, radius)),
          base |-> VAdd(center, VMul(lerp(dir1, dir2), QAdd(radius, distance))) ]

\* add_angle_dim with both angles brought into [0, 360)
add_angle_dim_normalized(center, angle, delta, radius, distance, text_rotation) ==
    LET start_angle == (angle - delta) % Turn
        end_angle == (angle + delta) % Turn
    IN  resolve_from_center_radius_angles(center, radius, start_angle,
                                          end_angle, distance, text_rotation)

\* add_angle_dim: the geometry of the dimension it returns
add_angle_dim(center, angle, delta, radius, distance, text_rotation) ==
    LET start_angle == angle - delta
        end_angle == angle + delta
    IN  resolve_from_center_radius_angles(center, radius, start_angle,
                                          end_angle, distance, text_rotation)

\* add_angle_dim: the lines it draws first
add_angle_dim_lines(center, angle, delta, radius) ==
    add_lines(center, radius, angle - delta, angle + delta)

\* f"{angle:.0f}": round half to even, no decimals; a negative value that
\* rounds to zero keeps its sign ("-0")
fmt_0f(angle) ==
    LET q == angle \div ArgDeg(1)
        r == IF angle % ArgDeg(1) = 0 THEN q
             ELSE IF q % 2 = 0 THEN q ELSE q + 1
    IN  IF angle < 0 /\ r = 0 THEN "-0" ELSE ToString(r)

\* rstr that leaves the rotation out of the name
rstr_dropped(rotation) == ""

\* rstr of usr_location_absolute and usr_location_relative
rstr(rotation) ==
    IF rotation # None THEN "rot_" \o ToString(rotation[1]) \o "_" ELSE ""

\* the file name a call saves to
FileName(c) ==
    CASE c.fn = "angular_cra_default" ->
            "dim_angular_cra_" \o c.dxfversion \o "_default.dxf"
      [] c.fn = "angular_3p_default" ->
            "dim_angular_3p_" \o c.dxfversion \o "_default.dxf"
      [] c.fn = "angular_2l_default" ->
            "dim_angular_2l_" \o c.dxfversion \o "_default.dxf"
      [] c.fn = "angular_3d" -> "dim_angular_" \o c.dxfversion \o "_3d.dxf"
      [] c.fn = "angular_units_tol_limits" ->
            "dim_angular_units_tol_limits_" \o c.dxfversion \o ".dxf"
      [] c.fn = "measure_fixed_angle" ->
            "dim_angular_" \o fmt_0f(c.angle) \o "_deg_" \o c.dxfversion \o ".dxf"
      [] c.fn = "usr_location_absolute" ->
            "dim_angular_usr_loc_absolute_" \o rstr(c.rotation) \o c.dxfversion \o ".dxf"
      [] c.fn = "usr_location_relative" ->
            "dim_angular_usr_loc_relative_" \o rstr(c.rotation) \o c.dxfversion \o ".dxf"
      [] c.fn = "show_all_arrow_heads" ->
            "dim_angular_all_arrows_" \o c.dxfversion \o ".dxf"

\* doc.set_modelspace_vport(height, center)
VPort(fn) ==
    CASE fn \in {"angular_cra_default", "angular_3p_default",
                 "angular_units_tol_limits"} -> [height |-> 70, center |-> <<0, 0>>]
      [] fn \in {"angular_2l_default", "angular_3d"} ->
            [height |-> 30, center |-> <<0, 0>>]
      [] fn = "measure_fixed_angle" -> [height |-> 100, center |-> <<XDist * 4, 20>>]
      [] fn \in {"usr_location_absolute", "usr_location_relative"} ->
            [height |-> 100, center |-> <<XDist * 4, 40>>]
      [] fn = "show_all_arrow_heads" -> [height |-> 100, center |-> <<50, 5>>]

(***************************************************************************)
(* The script's steps.                                                     *)
(***************************************************************************)
Fn == Main[call].fn

AtStmt(name) == pc = "body" /\ Body(Fn)[stmt] = name

\* after a statement of the loop body: the next statement, the next
\* iteration, or the end of the loops
Advance ==
    IF stmt < Len(Body(Fn))
    THEN /\ stmt' = stmt + 1
         /\ UNCHANGED <<i, j, pc>>
    ELSE /\ stmt' = 1
         /\ IF i < InnerLen(Fn)
            THEN i' = i + 1 /\ UNCHANGED <<j, pc>>
            ELSE /\ i' = 1
                 /\ IF j < OuterLen(Fn)
                    THEN j' = j + 1 /\ UNCHANGED pc
                    ELSE j' = j /\ pc' = "save"

\* a resolver error is an exception nothing catches: the script ends, the
\* lines drawn before the call stay in the document that is never saved
Raise(lines) ==
    /\ pc' = "raised"
    /\ msp' = msp \o lines
    /\ UNCHANGED <<i, j, stmt, dim>>

\* ezdxf.new(dxfversion, setup=True); msp = doc.modelspace(); data = [...]
NewDoc ==
    /\ pc = "call"
    /\ doc' = doc + 1
    /\ msp' = <<>>
    /\ dim' = 0
    /\ data' = DataOf(Fn)
    /\ j' = 1 /\ i' = 1 /\ stmt' = 1
    /\ pc' = "body"
    /\ UNCHANGED <<OUTDIR, call, files, req, res>>

\* angular_cra_default, angular_units_tol_limits:
\* center += offset; add_lines(...); dim = msp.add_angular_dim_cra(...)
AddCRA ==
    /\ AtStmt("add_angular_dim_cra")
    /\ LET g == IF Fn = "angular_cra_default" THEN tad_groups[j] ELSE unit_groups[j]
           row == data[i]
           b == iadd(data, i, g.offset)
           geometry == cra_call(b.center, row)
           override ==
               IF Fn = "angular_cra_default" THEN g.override
               ELSE [ dimaunit |-> g.override.dimaunit, dimtol |-> row.dimtol,
                      dimtp |-> 1, dimtm |-> 2, dimlim |-> row.dimlim ]
       IN  IF geometry.kind = "error"
           THEN /\ data' = b.data
                /\ Raise(add_lines(b.center, Num(CraRadius), row.start_angle,
                                   row.end_angle))
           ELSE /\ data' = b.data
                /\ msp' = msp
                       \o add_lines(b.center, Num(CraRadius), row.start_angle,
                                    row.end_angle)
                       \o << Dimension(geometry, override, "EZ_CURVED") >>
                /\ dim' = Len(msp')
                /\ Advance
    /\ UNCHANGED <<OUTDIR, call, doc, files, req, res>>

\* angular_3p_default:
\* center += offset; add_lines(...); msp.add_angular_dim_3p(base, center, p1, p2)
Add3P ==
    /\ AtStmt("add_angular_dim_3p")
    /\ LET g == tad_groups[j]
           row == data[i]
           b == iadd(data, i, g.offset)
           pts == defpoints_3p(b.center, Num(CraRadius), Num(CraDistance),
                               row.start_angle, row.end_angle)
           geometry == resolve_from_three_points(pts.base, b.center, pts.p1,
                                                 pts.p2, None)
       IN  IF geometry.kind = "error"
           THEN /\ data' = b.data
                /\ Raise(add_lines(b.center, Num(CraRadius), row.start_angle,
                                   row.end_angle))
           ELSE /\ data' = b.data
                /\ msp' = msp
                       \o add_lines(b.center, Num(CraRadius), row.start_angle,
                                    row.end_angle)
                       \o << Dimension(geometry, g.override, "EZ_CURVED") >>
                /\ dim' = Len(msp')
                /\ Advance
    /\ UNCHANGED <<OUTDIR, call, doc, files, req, res>>

\* angular_2l_default, angular_3d:
\* msp.add_line(line1), msp.add_line(line2), msp.add_angular_dim_2l(...)
Add2L ==
    /\ AtStmt("add_angular_dim_2l")
    /\ LET l == locations[i]
           ucs == IF Fn = "angular_3d" THEN Some(l.base) ELSE None
           geometry == resolve_from_two_lines(l.base, l.line1, l.line2)
       IN  IF geometry.kind = "error"
           THEN /\ data' = data
                /\ Raise(<< Line(l.line1[1], l.line1[2], ucs),
                            Line(l.line2[1], l.line2[2], ucs) >>)
           ELSE /\ msp' = msp
                       \o << Line(l.line1[1], l.line1[2], ucs),
                             Line(l.line2[1], l.line2[2], ucs) >>
                       \o << Dimension(geometry, <<>>, "EZ_CURVED") >>
                /\ dim' = Len(msp')
                /\ data' = data
                /\ Advance
    /\ UNCHANGED <<OUTDIR, call, doc, files, req, res>>

\* the arguments the function of call c (measure_fixed_angle, usr_location_*
\* or show_all_arrow_heads) passes to add_angle_dim in iteration (jj, ii)
AngleDimArgsOf(c, jj, ii) ==
    IF c.fn = "show_all_arrow_heads"
    THEN [ center |-> Vec3((jj - 1) * XDist, (ii - 1) * 6),
           angle |-> Deg(90),
           delta |-> halved(arrow_angles[ii]),
           text_rotation |-> None,
           override |-> [dimblk |-> jj] ]
    ELSE LET g == IF c.fn = "measure_fixed_angle" THEN fixed_groups[jj]
                  ELSE usr_groups[jj]
         IN  [ center |-> Vec3(XDist * (ii - 1), g.y_dist),
               angle |-> Deg(45) * (ii - 1),
               delta |-> halved(c.angle),
               text_rotation |-> c.rotation,
               override |-> [dimtad |-> g.dimtad] ]

\* the arguments of the add_angle_dim call the script is at
AngleDimArgs == AngleDimArgsOf(Main[call], j, i)

\* dim = add_angle_dim(msp, center, angle, delta, radius, distance, ...)
AddAngleDim ==
    /\ AtStmt("add_angle_dim")
    /\ LET a == AngleDimArgs
           geometry == add_angle_dim(a.center, a.angle, a.delta, Num(FixedRadius),
                                     Num(FixedDistance), a.text_rotation)
       IN  IF geometry.kind = "error"
           THEN Raise(add_angle_dim_lines(a.center, a.angle, a.delta,
                                          Num(FixedRadius)))
           ELSE /\ msp' = msp
                       \o add_angle_dim_lines(a.center, a.angle, a.delta,
                                              Num(FixedRadius))
                       \o << Dimension(geometry, a.override, "EZ_CURVED") >>
                /\ dim' = Len(msp')
                /\ Advance
    /\ UNCHANGED <<OUTDIR, call, data, doc, files, req, res>>

\* usr_location_absolute: dim.set_location(usr_location, leader=leader)
\* usr_location_relative: dim.set_location(usr_location, leader=leader, relative=True)
SetLocation ==
    /\ AtStmt("set_location")
    /\ LET a == AngleDimArgs
           g == usr_groups[j]
           relative == (Fn = "usr_location_relative")
           usr_location ==
               IF relative THEN from_deg_angle(a.angle, Num(2))
               ELSE VAdd(a.center,
                         from_deg_angle(a.angle,
                                        Num(FixedRadius + FixedDistance * 2)))
       IN  msp' = [msp EXCEPT ![dim] = set_location(@, usr_location, g.leader,
                                                    relative)]
    /\ Advance
    /\ UNCHANGED <<OUTDIR, call, data, doc, dim, files, req, res>>

\* dim.render(discard=BRICSCAD), in angular_3d with ucs=ucs
Render ==
    /\ AtStmt("render")
    /\ LET ucs == IF Fn = "angular_3d" THEN Some(locations[i].base) ELSE None
       IN  msp' = [msp EXCEPT ![dim] = render(@, BRICSCAD, ucs)]
    /\ Advance
    /\ UNCHANGED <<OUTDIR, call, data, doc, dim, files, req, res>>

\* doc.set_modelspace_vport(...); doc.saveas(OUTDIR / name); the function returns
Save ==
    /\ pc = "save"
    /\ files' = Append(files, [ path |-> OUTDIR \o "/" \o FileName(Main[call]),
                                doc |-> doc,
                                vport |-> VPort(Fn),
                                content |-> msp ])
    /\ IF call < Len(Main)
       THEN call' = call + 1 /\ pc' = "call"
       ELSE call' = call /\ pc' = "done"
    /\ UNCHANGED <<OUTDIR, j, i, stmt, data, doc, msp, dim, req, res>>

Init ==
    /\ OUTDIR \in {"~/Desktop/Outbox", "."}
    /\ call = 1
    /\ pc = "call"
    /\ j = 1 /\ i = 1 /\ stmt = 1
    /\ data = <<>>
    /\ doc = 0
    /\ msp = <<>>
    /\ dim = 0
    /\ files = <<>>
    /\ req = [op |-> "none"]
    /\ res = [kind |-> "none"]

Next ==
    \/ NewDoc
    \/ AddCRA
    \/ Add3P
    \/ Add2L
    \/ AddAngleDim
    \/ SetLocation
    \/ Render
    \/ Save

Spec == Init /\ [][Next]_vars

(***************************************************************************)
(* The resolver on its own: one call at a time on inputs drawn from small  *)
(* sets, among them the inputs the script builds.                          *)
(***************************************************************************)
MaxRadius == 2

MaxDistance == 2

MaxTurnSteps == 13

GridMax == 2

Centers == { Vec3(0, 0), Vec3(10, -20) }

Radii == { Num(r) : r \in -1..MaxRadius }

Distances == { Num(d) : d \in -MaxDistance..MaxDistance }

\* multiples of 30 degrees from -90 up, beyond 360 at the upper end
Angles == { Deg(30) * k : k \in -3..MaxTurnSteps }

Rotations == { None, Some(15) }

\* points at a multiple of 60 degrees around c, c itself among them
Around60(c) ==
    { VAdd(c, from_deg_angle(Deg(60) * k, Num(r))) : k \in 0..5, r \in 0..MaxRadius }

\* points off c at a multiple of 30 degrees
Around30(c) ==
    { VAdd(c, from_deg_angle(Deg(30) * k, Num(r))) : k \in 0..11, r \in 1..MaxRadius }

Lattice == { Vec3(x, y) : x \in 0..GridMax, y \in 0..GridMax }

Segments == { s \in Lattice \X Lattice : s[1] # s[2] }

\* a call is made on a resolver that has answered none yet; what follows a
\* call is only what is fed from its answer
Idle == req.op = "none"

CallCRA ==
    /\ Idle
    /\ \E center \in Centers, radius \in Radii, start_angle \in Angles,
       end_angle \in Angles, distance \in Distances, text_rotation \in Rotations :
        /\ req' = [ op |-> "cra", center |-> center, radius |-> radius,
                 start_angle |-> start_angle, end_angle |-> end_angle,
                 distance |-> distance, text_rotation |-> text_rotation ]
        /\ res' = resolve_from_center_radius_angles(center, radius, start_angle,
                                                 end_angle, distance,
                                                 text_rotation)
        /\ UNCHANGED scriptVars

\* the center-radius-angles calls of angular_cra_default: every row of its
\* data under every offset
CallCRAData ==
    /\ Idle
    /\ \E g \in 1..Len(tad_groups), k \in 1..Len(cra_data) :
        LET row == cra_data[k]
            center == iadd(cra_data, k, tad_groups[g].offset).center
        IN  /\ req' = [ op |-> "cra", center |-> center,
                        radius |-> Num(CraRadius),
                        start_angle |-> row.start_angle,
                        end_angle |-> row.end_angle,
                        distance |-> Num(CraDistance), text_rotation |-> None ]
            /\ res' = cra_call(center, row)
            /\ UNCHANGED scriptVars

\* the calls of __main__ whose function calls add_angle_dim
AngleDimCalls == { k \in 1..Len(Main) : Body(Main[k].fn)[1] = "add_angle_dim" }

\* add_angle_dim on the arguments of one of the calls the script makes: call k
\* of __main__, iteration (jj, ii) of its loops
CallAddAngleDim ==
    /\ Idle
    /\ \E k \in AngleDimCalls :
       \E jj \in 1..OuterLen(Main[k].fn), ii \in 1..InnerLen(Main[k].fn) :
        LET a == AngleDimArgsOf(Main[k], jj, ii)
        IN  /\ req' = [ op |-> "add_angle_dim", center |-> a.center,
                      angle |-> a.angle, delta |-> a.delta,
                      radius |-> Num(FixedRadius), distance |-> Num(FixedDistance),
                      text_rotation |-> a.text_rotation ]
            /\ res' = add_angle_dim(a.center, a.angle, a.delta,
                                  Num(FixedRadius), Num(FixedDistance),
                                  a.text_rotation)
            /\ UNCHANGED scriptVars

Call3P ==
    /\ Idle
    /\ \E center \in Centers :
      \E boundary_point_1 \in Around60(center),
         boundary_point_2 \in Around60(center),
         dimension_line_point \in Around30(center) :
        /\ req' = [ op |-> "3p", built |-> FALSE,
                 dimension_line_point |-> dimension_line_point,
                 center |-> center, boundary_point_1 |-> boundary_point_1,
                 boundary_point_2 |-> boundary_point_2 ]
        /\ res' = resolve_from_three_points(dimension_line_point, center,
                                         boundary_point_1, boundary_point_2, None)
        /\ UNCHANGED scriptVars

\* the three-point calls of angular_3p_default: the defpoints of every row
\* of its data under every offset
Call3PDefpoints ==
    /\ Idle
    /\ \E g \in 1..Len(tad_groups), k \in 1..Len(p3_data) :
        LET row == p3_data[k]
            center == iadd(p3_data, k, tad_groups[g].offset).center
            pts == defpoints_3p(center, Num(CraRadius), Num(CraDistance),
                                row.start_angle, row.end_angle)
        IN  /\ req' = [ op |-> "3p", built |-> TRUE,
                     dimension_line_point |-> pts.base,
                     center |-> center, boundary_point_1 |-> pts.p1,
                     boundary_point_2 |-> pts.p2,
                     radius |-> Num(CraRadius), distance |-> Num(CraDistance),
                     start_angle |-> row.start_angle,
                     end_angle |-> row.end_angle ]
            /\ res' = resolve_from_three_points(pts.base, center, pts.p1, pts.p2, None)
            /\ UNCHANGED scriptVars

\* what resolve_from_three_points derived, fed to
\* resolve_from_center_radius_angles
RoundTrip ==
    /\ req.op = "3p"
    /\ res.kind = "spec"
    /\ req' = [ op |-> "roundtrip", built |-> req.built, original |-> req,
                derived |-> res ]
    /\ res' = resolve_from_center_radius_angles(res.center, res.radius,
                                                res.start_angle, res.end_angle,
                                                res.distance, res.text_rotation)
    /\ UNCHANGED scriptVars

Call2L ==
    /\ Idle
    /\ \E line1 \in Segments, line2 \in Segments :
        /\ req' = [ op |-> "2l", placement |-> 0, line1 |-> line1, line2 |-> line2 ]
        /\ res' = resolve_from_two_lines(Vec3(0, GridMax + 1), line1, line2)
        /\ UNCHANGED scriptVars

\* the two-line calls of angular_2l_default and angular_3d
Call2LLocations ==
    /\ Idle
    /\ \E k \in 1..Len(locations) :
        LET l == locations[k]
        IN  /\ req' = [ op |-> "2l", placement |-> k, line1 |-> l.line1,
                     line2 |-> l.line2 ]
            /\ res' = resolve_from_two_lines(l.base, l.line1, l.line2)
            /\ UNCHANGED scriptVars

NextResolver ==
    \/ CallCRA
    \/ CallCRAData
    \/ CallAddAngleDim
    \/ Call3P
    \/ Call3PDefpoints
    \/ RoundTrip
    \/ Call2L
    \/ Call2LLocations

\* the resolver reads nothing of the script's state
InitResolver == Init /\ OUTDIR = "."

SpecResolver == InitResolver /\ [][NextResolver]_vars

(***************************************************************************)
(* Properties.                                                             *)
(***************************************************************************)
\* the DIMENSION entities of a modelspace, in the order they were added
DimSeq(entities) == SelectSeq(entities, IsDim)

\* the loop position (outer, inner) that added the k-th dimension when the
\* inner loop runs n times
OuterOf(k, n) == ((k - 1) \div n) + 1

InnerOf(k, n) == ((k - 1) % n) + 1

\* the sweep the DIMENSION measures
measurement(e) == measured_angle(e.geometry.start_angle, e.geometry.end_angle)

\* the documents of a call: the one being built and the one saved
DocsOf(k) ==
    (IF call = k /\ pc \in {"body", "save"} THEN {msp} ELSE {})
        \cup { files[n].content : n \in { m \in 1..Len(files) : m = k } }

\* the sweeps of the four rows of angular_cra_default, in degrees
CraSweeps == << 60, 300, 60, 90 >>

\* C1: every dimension of angular_cra_default keeps the start_angle and
\* end_angle of its data row in the order given and measures the
\* counter-clockwise sweep from start_angle to end_angle: 60 degrees for
\* (60,120) and (240,300), 300 for (300,240), 90 for (300,30); never the
\* smaller of the two angles between the rays.
C1_CounterClockwiseSweep ==
    \A entities \in DocsOf(1) :
        \A k \in 1..Len(DimSeq(entities)) :
            LET e == DimSeq(entities)[k]
                n == InnerOf(k, Len(cra_data))
            IN  /\ e.geometry.start_angle = cra_data[n].start_angle
                /\ e.geometry.end_angle = cra_data[n].end_angle
                /\ measurement(e) = Deg(CraSweeps[n])
                /\ measurement(e) =
                       (cra_data[n].end_angle - cra_data[n].start_angle) % Deg(360)

\* C1 witness: the (300,240) dimension of angular_cra_default is rendered
\* and measures 300 degrees
C1_Witness ==
    /\ call = 1 /\ pc = "body"
    /\ \E k \in Dims(msp) :
        /\ msp[k].geometry.start_angle = Deg(300)
        /\ msp[k].geometry.end_angle = Deg(240)
        /\ msp[k].rendered = 1
        /\ measurement(msp[k]) = Deg(300)

Positive(q) == QSign(q) > 0

\* C2: for radius > 0 the spec resolve_from_center_radius_angles returns
\* holds center, radius, start_angle, end_angle and distance exactly as
\* passed: no angle is normalized into [0,360), also not the negative
\* start_angle = angle - delta add_angle_dim passes for angle = 0, and a
\* negative distance is kept.
C2_NoNormalization ==
    /\ (req.op = "cra" /\ Positive(req.radius)) =>
          /\ res.kind = "spec"
          /\ res.center = req.center
          /\ res.radius = req.radius
          /\ res.start_angle = req.start_angle
          /\ res.end_angle = req.end_angle
          /\ res.distance = req.distance
    /\ req.op = "add_angle_dim" =>
          /\ res.kind = "spec"
          /\ res.center = req.center
          /\ res.radius = req.radius
          /\ res.start_angle = req.angle - req.delta
          /\ res.end_angle = req.angle + req.delta
          /\ res.distance = req.distance

\* C2 witness: add_angle_dim with angle = 0 yields a negative start_angle
C2_Witness ==
    /\ req.op = "add_angle_dim"
    /\ req.angle = 0
    /\ res.kind = "spec"
    /\ res.start_angle < 0
    /\ res.end_angle = -res.start_angle

\* angle a lies on the counter-clockwise arc from start_angle to end_angle
OnArc(a, start_angle, end_angle) ==
    (a - start_angle) % Turn <= measured_angle(start_angle, end_angle)

\* p lies at distance r from c, in a direction on the swept arc
OnDimensionArc(p, c, r, start_angle, end_angle) ==
    /\ distance_between(c, p) = r
    /\ OnArc(angle_of(VSub(p, c)), start_angle, end_angle)

\* C3, the resolver's half: the dimension_line_point of a
\* center-radius-angles dimension is center + direction_at(m) *
\* (radius + distance), m the midpoint of the swept arc; (0,0), 5, 60, 120, 2
\* gives (0,7)
C3_ResolverPoint ==
    (req.op = "cra" /\ res.kind = "spec"
        /\ Positive(QAdd(req.radius, req.distance))) =>
          /\ OnDimensionArc(res.dimension_line_point, req.center,
                            QAdd(req.radius, req.distance), req.start_angle,
                            req.end_angle)
          /\ (req.center = Vec3(0, 0) /\ req.radius = Num(5)
                /\ req.start_angle = Deg(60) /\ req.end_angle = Deg(120)
                /\ req.distance = Num(2)) =>
                 res.dimension_line_point = Vec3(0, 7)

\* C3, the script's half: the point angular_3p_default obtains by linear
\* interpolation of the two boundary unit vectors scaled by radius +
\* distance lies at distance radius + distance from center, in a direction
\* on the swept arc
C3_ScriptPoint ==
    (req.op = "3p" /\ req.built) =>
        OnDimensionArc(req.dimension_line_point, req.center,
                       QAdd(req.radius, req.distance), req.start_angle,
                       req.end_angle)

\* C3: the dimension_line_point lies at distance exactly radius + distance
\* from center in a direction on the swept counter-clockwise arc, (0,7) for
\* ((0,0), 5, 60, 120, 2), also when it is obtained as the script does.
C3_DimensionLinePoint == C3_ResolverPoint /\ C3_ScriptPoint

\* the round trip gave back the point it started from
Reproduced == res.dimension_line_point = req.original.dimension_line_point

\* the original point lies on the bisector of the counter-clockwise arc from
\* the derived start_angle to the derived end_angle
OnBisector ==
    (angle_of(VSub(req.original.dimension_line_point, req.original.center))
        - lerp_angle(req.derived.start_angle, req.derived.end_angle)) % Turn = 0

\* C4 as claimed: for any valid three-point input, also every one
\* angular_3p_default builds, feeding what resolve_from_three_points derives
\* into resolve_from_center_radius_angles reproduces the original
\* dimension_line_point.
C4_RoundTrip ==
    req.op = "roundtrip" => (res.kind = "spec" /\ Reproduced)

\* C4 amended: the round trip yields a spec with the derived center, whose
\* point lies as far from center as the original; it is the original exactly
\* when the original lies on the bisector of the counter-clockwise arc from
\* start_angle to end_angle.  The inputs angular_3p_default builds from rows
\* that sweep less than 180 degrees, (60,120) and (240,300), are reproduced.
C4_RoundTripAmended ==
    req.op = "roundtrip" =>
        /\ res.kind = "spec"
        /\ res.center = req.original.center
        /\ distance_between(res.center, res.dimension_line_point) =
               distance_between(req.original.center,
                                req.original.dimension_line_point)
        /\ Reproduced <=> OnBisector
        /\ ( /\ req.built
             /\ measured_angle(req.original.start_angle,
                               req.original.end_angle) < Deg(180) ) => Reproduced

\* C4 witness: the round trip of an input angular_3p_default builds from its
\* row (240,300) ends at the point it started from, which lies on the bisector
C4_Witness ==
    /\ req.op = "roundtrip"
    /\ req.built
    /\ req.original.start_angle = Deg(240)
    /\ req.original.end_angle = Deg(300)
    /\ res.kind = "spec"
    /\ OnBisector
    /\ Reproduced

\* the directions of the two lines are proportional
Parallel(line1, line2) ==
    QSign(Cross(VSub(line1[2], line1[1]), VSub(line2[2], line2[1]))) = 0

\* C5: resolve_from_two_lines fails with ParallelLines and returns no spec
\* whenever the lines are parallel or coincident; the line pairs of
\* locations(), unflipped and flipped, are not parallel and resolve to a spec.
C5_ParallelLines ==
    req.op = "2l" =>
        /\ Parallel(req.line1, req.line2) => res = GeometryError("ParallelLines")
        /\ req.placement > 0 =>
              /\ ~Parallel(req.line1, req.line2)
              /\ res.kind = "spec"

\* C5 witness: ((0,0),(1,0)) with ((0,1),(1,1)) fails with ParallelLines
C5_Witness ==
    /\ req.op = "2l"
    /\ req.line1 = <<Vec3(0, 0), Vec3(1, 0)>>
    /\ req.line2 = <<Vec3(0, 1), Vec3(1, 1)>>
    /\ res.kind = "error"
    /\ res.error = "ParallelLines"

\* every number of a spec is a number
FiniteNumber(q) == Len(q) = 4 /\ \A n \in 1..4 : q[n] \in Int

FinitePoint(p) == FiniteNumber(p[1]) /\ FiniteNumber(p[2])

\* C6: an out-of-domain input gives a named geometry error and no spec:
\* radius <= 0 gives InvalidGeometry, a three-point input whose center is
\* boundary_point_1 or boundary_point_2 gives DegenerateGeometry; an error
\* carries no geometry, and no spec carries a non-finite field.
C6_NamedErrors ==
    /\ (req.op = "cra" /\ ~Positive(req.radius)) =>
          res = GeometryError("InvalidGeometry")
    /\ (req.op = "3p" /\ (req.center = req.boundary_point_1
                            \/ req.center = req.boundary_point_2)) =>
          res = GeometryError("DegenerateGeometry")
    /\ res.kind = "error" =>
          /\ DOMAIN res = {"kind", "error"}
          /\ res.error \in {"InvalidGeometry", "DegenerateGeometry", "ParallelLines"}
    /\ (res.kind = "spec" /\ req.op \in {"cra", "3p", "roundtrip", "add_angle_dim"}) =>
          /\ Positive(res.radius)
          /\ FiniteNumber(res.radius) /\ FiniteNumber(res.distance)
          /\ FinitePoint(res.center) /\ FinitePoint(res.dimension_line_point)

\* C6 witness: a three-point call whose boundary_point_2 is the center, and
\* whose boundary_point_1 is not, fails with DegenerateGeometry
C6_Witness ==
    /\ req.op = "3p"
    /\ req.boundary_point_2 = req.center
    /\ req.boundary_point_1 # req.center
    /\ res = GeometryError("DegenerateGeometry")

\* the rational point c lies on the infinite line through the segment
OnLine(c, line) ==
    LET a == IntPt(line[1])
        b == IntPt(line[2])
    IN  (c[3] * a[1] - c[1]) * (b[2] - a[2]) = (c[3] * a[2] - c[2]) * (b[1] - a[1])

\* dir points from c toward the lattice point e
Toward(c, dir, e) ==
    LET v == <<c[3] * e[1] - c[1], c[3] * e[2] - c[2]>>
    IN  /\ dir[1] * v[2] = dir[2] * v[1]
        /\ dir[1] * v[1] + dir[2] * v[2] > 0

\* dir points from c toward an end point of the segment that is no nearer
\* to c than the other
TowardFarther(c, dir, line) ==
    \E n \in 1..2 :
        /\ Toward(c, dir, IntPt(line[n]))
        /\ far2(c, IntPt(line[n])) >= far2(c, IntPt(line[3 - n]))

\* C7: for non-parallel lines center is the intersection of the two infinite
\* lines, start_angle the direction from center toward the farther end point
\* of line1 and end_angle that toward the farther end point of line2.  The
\* unflipped placement of locations() gives center (0,-1), start toward
\* (-4,3), end toward (4,3); the flipped one the mirror image about the
\* x-axis shifted by (10,0).
C7_TwoLines ==
    req.op = "2l" =>
        /\ ~Parallel(req.line1, req.line2) =>
              /\ res.kind = "spec"
              /\ res.center[3] > 0
              /\ OnLine(res.center, req.line1)
              /\ OnLine(res.center, req.line2)
              /\ TowardFarther(res.center, res.start_dir, req.line1)
              /\ TowardFarther(res.center, res.end_dir, req.line2)
        /\ req.placement = 1 =>
              /\ req.line1 = <<Vec3(-4, 3), Vec3(-1, 0)>>
              /\ req.line2 = <<Vec3(1, 0), Vec3(4, 3)>>
              /\ res.kind = "spec"
              /\ res.center = <<0, -1, 1>>
              /\ Toward(res.center, res.start_dir, <<-4, 3>>)
              /\ Toward(res.center, res.end_dir, <<4, 3>>)
        /\ req.placement = 2 =>
              /\ res.kind = "spec"
              /\ res.center = <<10, 1, 1>>
              /\ Toward(res.center, res.start_dir, <<10 - 4, -3>>)
              /\ Toward(res.center, res.end_dir, <<10 + 4, -3>>)

\* C7 witness: the flipped placement, two lines that share no end point,
\* resolves with center (10,1)
C7_Witness ==
    /\ req.op = "2l"
    /\ req.placement = 2
    /\ {req.line1[1], req.line1[2]} \cap {req.line2[1], req.line2[2]} = {}
    /\ res.kind = "spec"
    /\ res.center = <<10, 1, 1>>

\* a dimension rendered exactly once, after its last set_location
RenderedOnce(e) == e.rendered = 1 /\ ~e.relocated

\* the functions that call set_location on every dimension
UsrCalls == { k \in 1..Len(Main) :
                Main[k].fn \in {"usr_location_absolute", "usr_location_relative"} }

\* C8: every dimension is rendered exactly once, after its creation and
\* after any set_location on it, and before its document is saved; each
\* function creates one document and saves it exactly once, after the last
\* render: no saved document holds a dimension that is not rendered.
C8_RenderedBeforeSave ==
    /\ \A n \in 1..Len(files) :
          /\ files[n].doc = n
          /\ Dims(files[n].content) # {}
          /\ \A k \in Dims(files[n].content) :
                /\ RenderedOnce(files[n].content[k])
                /\ n \in UsrCalls => files[n].content[k].user_location # None
    /\ doc = Len(files) + (IF pc \in {"body", "save", "raised"} THEN 1 ELSE 0)
    /\ pc \in {"body", "save"} =>
          \A k \in Dims(msp) :
              /\ msp[k].rendered <= 1
              /\ ~msp[k].relocated
              /\ msp[k].rendered = 0 => (pc = "body" /\ k = dim /\ stmt > 1)
    /\ pc = "done" => Len(files) = Len(Main)
    /\ pc # "raised"

\* C8 witness: the document of usr_location_absolute(6) is saved, and a
\* dimension in it has a user location and is rendered once
C8_Witness ==
    /\ Len(files) >= 9
    /\ \E k \in Dims(files[9].content) :
          /\ files[9].content[k].user_location # None
          /\ files[9].content[k].rendered = 1

\* the calls whose loops run `center += offset` over the rows of `data`
DataCalls == { k \in 1..Len(Main) : DataOf(Main[k].fn) # <<>> }

OffsetOf(fn, n) ==
    IF fn = "angular_units_tol_limits" THEN unit_groups[n].offset
    ELSE tad_groups[n].offset

\* C9: `center += offset` rebinds the loop variable only: the rows of `data`
\* stay as they were before the loops, and the dimension of row i in offset
\* group j sits at data[i].center + offset[j]; offsets never accumulate.
C9_CenterRebound ==
    /\ (call \in DataCalls /\ pc \in {"body", "save"}) => data = DataOf(Fn)
    /\ \A c \in DataCalls :
          \A entities \in DocsOf(c) :
              \A k \in 1..Len(DimSeq(entities)) :
                  LET rows == DataOf(Main[c].fn)
                      n == InnerOf(k, Len(rows))
                      g == OuterOf(k, Len(rows))
                  IN  DimSeq(entities)[k].geometry.center =
                          VAdd(rows[n].center, OffsetOf(Main[c].fn, g))

\* C9 witness: angular_cra_default is in its third offset group, and the
\* first row's dimension of that group sits at (0,0) + (0,-20)
C9_Witness ==
    /\ call = 1 /\ pc = "body" /\ j = 3 /\ i = 2
    /\ Len(DimSeq(msp)) = 9
    /\ DimSeq(msp)[9].geometry.center = Vec3(0, -20)
    /\ data[1].center = Vec3(0, 0)

\* the file names of one run, in the order of the __main__ block
ExpectedNames ==
    << "dim_angular_cra_R2013_default.dxf",
       "dim_angular_3p_R2013_default.dxf",
       "dim_angular_2l_R2013_default.dxf",
       "dim_angular_R2000_3d.dxf",
       "dim_angular_units_tol_limits_R2013.dxf",
       "dim_angular_3_deg_R2013.dxf",
       "dim_angular_6_deg_R2013.dxf",
       "dim_angular_9_deg_R2013.dxf",
       "dim_angular_usr_loc_absolute_R2013.dxf",
       "dim_angular_usr_loc_absolute_rot_15_R2013.dxf",
       "dim_angular_usr_loc_relative_R2013.dxf",
       "dim_angular_usr_loc_relative_rot_345_R2013.dxf",
       "dim_angular_all_arrows_R2013.dxf" >>

\* C10: a run saves 13 files, in the order of the __main__ block, each from a
\* document of its own and all into OUTDIR, under pairwise distinct names:
\* no save overwrites a file written earlier in the run.
C10_DistinctFiles ==
    /\ Len(files) <= 13
    /\ pc = "done" => Len(files) = 13
    /\ \A n \in 1..Len(files) :
          /\ files[n].path = OUTDIR \o "/" \o ExpectedNames[n]
          /\ files[n].doc = n
    /\ \A m, n \in 1..Len(files) : m # n => files[m].path # files[n].path
    /\ Len(files) = (IF pc = "done" THEN call ELSE call - 1)

\* C10 witness: the run is over and the last file is that of
\* show_all_arrow_heads
C10_Witness ==
    /\ pc = "done"
    /\ Len(files) = 13
    /\ files[13].path = OUTDIR \o "/dim_angular_all_arrows_R2013.dxf"

=============================================================================
